---- MODULE Spec2Model ----
(***************************************************************************)
(* pkghtml: a http.Handler that renders package documentation, caches the  *)
(* rendering per package name and refreshes it in one background goroutine *)
(* per cached name.  Strings are sequences of one-character strings.       *)
(***************************************************************************)
EXTENDS Integers, Sequences, FiniteSets

\* ------------------------------------------------------------------ bounds
\* Number of concurrent requests (goroutines of the HTTP server).
NumReqs == 2
\* Number of update goroutines one name can have.
MaxUpdaters == 2
\* Last instant of the clock.
MaxTime == 1

\* ------------------------------------------------------- program constants
StatusOK == 200
StatusMovedPermanently == 301
StatusNotFound == 404
StatusInternalServerError == 500

\* ------------------------------------------------------------------ inputs
Reqs == 1..NumReqs

\* The handler's root package name, New's first argument.
RootName == <<"n">>

\* req.URL.Path values the server hands to ServeHTTP: the root written in
\* three ways, and two paths without a slash at the end.
Paths ==
  { <<>>,
    <<"/", "/">>,
    <<"/", ".", "/">>,
    <<"a">>,
    <<"b", "/", "a">> }

\* req.URL.RawQuery values.
Queries == { <<>>, <<"q">> }

\* What the renderer can produce for a package.
Payloads == {"P1", "P2"}

\* Outcomes of pkgdoc.New: whether doc.Name is non-empty, and the error.
InspectOutcomes ==
  { [named |-> TRUE,  err |-> "nil"],
    [named |-> TRUE,  err |-> "InspectErr"],
    [named |-> FALSE, err |-> "nil"],
    [named |-> FALSE, err |-> "InspectErr"] }

\* Outcomes of h.render: the bytes and the error.
RenderOutcomes ==
  [buf : Payloads, err : {"nil"}] \cup { [buf |-> "nil", err |-> "RenderErr"] }

\* The values the UpdateDuration option is given.
Durations == {0, 1}

\* The error handlers the ErrorHandler option leaves in place.
ErrorHandlers == {"default", "custom"}

\* A nil *pkg.
NoPkg == [buf |-> "nil", modTime |-> -1]

\* No mutex holder.
NoHolder == <<"none", 0>>

VARIABLES
  mu,             \* h.mu: the holder of the mutex
  packages,       \* h.packages: name -> pkg
  updateDuration, \* h.updateDuration
  errorHandler,   \* h.errorHandler
  now,            \* the clock read by time.Now
  req,            \* the ServeHTTP calls in progress, one per request goroutine
  resp,           \* the response written by the step just taken, if any
  updaters,       \* name -> the goroutines started by "go h.update(name)"
  crashed,        \* an unrecovered panic ended the process
  cycle,          \* the update cycle ended by the step just taken, if any
  before          \* the cache and the goroutines before the step just taken

vars ==
  <<mu, packages, updateDuration, errorHandler, now, req, resp, updaters,
    crashed, cycle, before>>

\* ----------------------------------------------------------------- strings
Last(s) == s[Len(s)]

HasPrefixSlash(s) == Len(s) > 0 /\ s[1] = "/"

\* path.Clean's loop over a rooted path: r is the next character to read,
\* out the buffer written so far.  Empty and "." elements are skipped, ".."
\* drops the last element written, any other element is appended.
RECURSIVE CleanLoop(_, _, _)
CleanLoop(path, r, out) ==
  LET n == Len(path) IN
  IF r > n THEN out
  ELSE IF path[r] = "/" THEN CleanLoop(path, r + 1, out)
  ELSE IF path[r] = "." /\ (r = n \/ path[r + 1] = "/")
    THEN CleanLoop(path, r + 1, out)
  ELSE IF path[r] = "." /\ path[r + 1] = "." /\ (r + 1 = n \/ path[r + 2] = "/")
    THEN LET RECURSIVE Back(_)
             Back(w) == IF w > 1 /\ out[w + 1] # "/" THEN Back(w - 1) ELSE w
             w1 == IF Len(out) > 1 THEN Back(Len(out) - 1) ELSE Len(out)
         IN CleanLoop(path, r + 2, SubSeq(out, 1, w1))
  ELSE LET sep == IF Len(out) # 1 THEN <<"/">> ELSE <<>>
           RECURSIVE Elem(_)
           Elem(i) == IF i <= n /\ path[i] # "/" THEN Elem(i + 1) ELSE i
           e == Elem(r)
       IN CleanLoop(path, e, out \o sep \o SubSeq(path, r, e - 1))

\* path.Clean of a rooted path.
Clean(path) == CleanLoop(path, 2, <<"/">>)

\* path.Base of a path that does not end in a slash.
Base(path) ==
  IF path = <<>> THEN <<".">>
  ELSE IF \E i \in 1..Len(path) : path[i] = "/"
    THEN LET i == CHOOSE j \in 1..Len(path) :
                    path[j] = "/" /\ \A k \in (j + 1)..Len(path) : path[k] # "/"
         IN SubSeq(path, i + 1, Len(path))
  ELSE path

\* ServeHTTP, lines 65-68: the path with a leading slash.
Url(path) == IF HasPrefixSlash(path) THEN path ELSE <<"/">> \o path

\* ServeHTTP, line 69: the request is redirected.
NeedsRedirect(url) == Last(url) # "/"

\* A Location that leaves the query out.
LocationNoQuery(url, q) == Base(url) \o <<"/">>

\* ServeHTTP, lines 71-74: the Location of the redirect.
Location(url, q) ==
  LET loc == Base(url) \o <<"/">> IN
  IF q # <<>> THEN loc \o <<"?">> \o q ELSE loc

\* ServeHTTP, lines 79-82: the package name of a request.
PkgName(url) == IF url # <<"/">> THEN RootName \o Clean(url) ELSE RootName

\* Every package name a request can ask for.
Names == { PkgName(Url(p)) : p \in { q \in Paths : ~NeedsRedirect(Url(q)) } }

\* ------------------------------------------------------------------- fetch
\* A fetch that returns the error of pkgdoc.New before it looks at doc.Name.
fetchErrFirst(insp, rend, t) ==
  IF insp.err # "nil" THEN [p |-> NoPkg, err |-> insp.err]
  ELSE IF ~insp.named THEN [p |-> NoPkg, err |-> "ErrImport"]
  ELSE IF rend.err # "nil" THEN [p |-> NoPkg, err |-> rend.err]
  ELSE [p |-> [buf |-> rend.buf, modTime |-> t], err |-> "nil"]

\* handler.fetch: the package or the error, given what pkgdoc.New and
\* h.render return and what time.Now reads.
fetch(insp, rend, t) ==
  LET err1 == IF ~insp.named THEN "ErrImport" ELSE insp.err IN
  IF err1 # "nil" THEN [p |-> NoPkg, err |-> err1]
  ELSE IF rend.err # "nil" THEN [p |-> NoPkg, err |-> rend.err]
  ELSE [p |-> [buf |-> rend.buf, modTime |-> t], err |-> "nil"]

\* A lookup that finds nothing.
CachedNever(pkgs, name) == FALSE

\* prepare, lines 94-95: the name is cached.
Cached(pkgs, name) == name \in DOMAIN pkgs

\* A lookup under the handler's own name instead of the request's.
LookupRoot(pkgs, name) ==
  IF RootName \in DOMAIN pkgs THEN pkgs[RootName] ELSE pkgs[name]

\* prepare, line 94: h.packages[name] of a cached name.
Lookup(pkgs, name) == pkgs[name]

\* A mutex that excludes nobody.
FreeAlways(m) == TRUE

\* sync.Mutex: Lock returns when nobody holds the mutex.
Free(m) == m = NoHolder

\* A store that keeps the modTime of the entry it replaces.
StoreKeepTime(pkgs, name, p) ==
  [n \in DOMAIN pkgs \cup {name} |->
     IF n = name
     THEN IF name \in DOMAIN pkgs
          THEN [buf |-> p.buf, modTime |-> pkgs[name].modTime] ELSE p
     ELSE pkgs[n]]

\* A store under the handler's own name instead of the package's.
StoreRoot(pkgs, name, p) ==
  [n \in DOMAIN pkgs \cup {RootName, name} |->
     IF n = RootName THEN p
     ELSE IF n \in DOMAIN pkgs THEN pkgs[n] ELSE p]

\* A store into a fresh map.
StoreAlone(pkgs, name, p) == [n \in {name} |-> p]

\* prepare, line 102 and update, line 132: h.packages[name] = p.
Store(pkgs, name, p) ==
  [n \in DOMAIN pkgs \cup {name} |-> IF n = name THEN p ELSE pkgs[n]]

\* An error handler without the ErrImport case.
defaultErrorHandlerNoCase(err) == StatusInternalServerError

\* defaultErrorHandler: the status code written for an error.
defaultErrorHandler(err) ==
  IF err = "ErrImport" THEN StatusNotFound ELSE StatusInternalServerError

\* ------------------------------------------------------------ observations
\* No update cycle ended.
NoCycle == [kind |-> "none", name |-> <<>>, p |-> NoPkg]

\* The cache and the number of update goroutines of each name, as they are
\* now.
Snapshot ==
  [packages |-> packages, updaters |-> [n \in Names |-> Len(updaters[n])]]

\* ---------------------------------------------------------------- requests
NoCause == [named |-> TRUE, err |-> "nil"]

\* No response written.  via is the path taken through ServeHTTP; url and
\* query are what a redirected request asked for; cause is what pkgdoc.New
\* returned to a failing fetch; code 0 is a status left to a custom error
\* handler.
NoResp ==
  [via |-> "none", url |-> <<>>, query |-> <<>>, name |-> <<>>, code |-> 0,
   location |-> <<>>, p |-> NoPkg,
   err |-> "nil", cbErr |-> "nil", cause |-> NoCause, served |-> FALSE,
   fetches |-> 0, second |-> FALSE]

\* A request goroutine.  fetches counts the h.fetch calls of the request;
\* second says that another request for the same name was inside its
\* h.fetch call at some moment since this one arrived.
IdleReq ==
  [pc |-> "idle", name |-> <<>>, p |-> NoPkg, fetches |-> 0, second |-> FALSE]

\* ServeHTTP, lines 84-87: the error handler is called with the error.
ErrorResponse(handler, err) ==
  [NoResp EXCEPT !.code = IF handler = "default"
                          THEN defaultErrorHandler(err) ELSE 0,
                 !.err = err, !.cbErr = err]

\* ServeHTTP, line 88: http.ServeContent serves the package.
ContentResponse(p) ==
  [NoResp EXCEPT !.code = StatusOK, !.p = p, !.served = TRUE]

\* ServeHTTP, lines 83-88: the response to what prepare returns.
Respond(p, err) ==
  IF err # "nil" THEN ErrorResponse(errorHandler, err) ELSE ContentResponse(p)

\* A return that unlocks on the successful path only.
ReturnLocked(r, via, p, err, cause) ==
  /\ mu' = IF err # "nil" THEN mu ELSE NoHolder
  /\ req' = [req EXCEPT ![r] = IdleReq]
  /\ resp' = [Respond(p, err) EXCEPT !.via = via, !.name = req[r].name,
                                     !.cause = cause,
                                     !.fetches = req[r].fetches,
                                     !.second = req[r].second]

\* prepare returns: the deferred Unlock, then ServeHTTP's response.
Return(r, via, p, err, cause) ==
  /\ mu' = NoHolder
  /\ req' = [req EXCEPT ![r] = IdleReq]
  /\ resp' = [Respond(p, err) EXCEPT !.via = via, !.name = req[r].name,
                                     !.cause = cause,
                                     !.fetches = req[r].fetches,
                                     !.second = req[r].second]

\* The requests other than r that are inside h.fetch, or past it, for name.
Fetching(r, name) ==
  { o \in Reqs \ {r} : req[o].name = name /\ req[o].pc \in {"fetch", "insert"} }

\* ServeHTTP, lines 64-83: a request arrives; it is redirected or goes on to
\* prepare.
ServeHTTP(r, path, q) ==
  /\ ~crashed
  /\ before' = Snapshot
  /\ cycle' = NoCycle
  /\ req[r].pc = "idle"
  /\ LET url == Url(path) IN
     IF NeedsRedirect(url)
     THEN /\ resp' = [NoResp EXCEPT !.via = "redirect",
                                    !.url = url, !.query = q,
                                    !.code = StatusMovedPermanently,
                                    !.location = Location(url, q)]
          /\ UNCHANGED req
     ELSE /\ req' = [req EXCEPT ![r] =
                       [IdleReq EXCEPT !.pc = "prepare", !.name = PkgName(url),
                                       !.second =
                                          Fetching(r, PkgName(url)) # {}]]
          /\ resp' = NoResp
  /\ UNCHANGED <<mu, packages, updateDuration, errorHandler, now, updaters,
                 crashed>>

\* prepare, lines 92-97 and 104: h.mu.Lock() and the lookup.  A hit returns
\* the cached package, which unlocks; a miss calls h.fetch with the mutex
\* held.
PrepareLookup(r) ==
  /\ ~crashed
  /\ before' = Snapshot
  /\ cycle' = NoCycle
  /\ req[r].pc = "prepare"
  /\ Free(mu)
  /\ IF Cached(packages, req[r].name)
     THEN Return(r, "hit", Lookup(packages, req[r].name), "nil", NoCause)
     ELSE /\ req' = [o \in Reqs |->
                       IF o = r
                       THEN [req[r] EXCEPT !.pc = "fetch", !.fetches = @ + 1]
                       ELSE IF req[o].pc = "prepare" /\ req[o].name = req[r].name
                       THEN [req[o] EXCEPT !.second = TRUE]
                       ELSE req[o]]
          /\ resp' = NoResp
          /\ mu' = <<"req", r>>
  /\ UNCHANGED <<packages, updateDuration, errorHandler, now, updaters,
                 crashed>>

\* A goroutine that has returned.
Exited(d) == [pc |-> "done", p |-> NoPkg, timer |-> d]

\* update, line 125: a goroutine at time.After(h.updateDuration), which is
\* where "go h.update(name)" starts it; timer is the time left to sleep.
Sleeping(d) == [pc |-> "sleep", p |-> NoPkg, timer |-> d]

\* Two goroutines started for one name.
SpawnTwice(upds, name, d) ==
  [upds EXCEPT ![name] = Append(Append(@, Sleeping(d)), Sleeping(d))]

\* prepare, line 101: go h.update(name).
Spawn(upds, name, d) == [upds EXCEPT ![name] = Append(@, Sleeping(d))]

\* prepare, lines 97-101: h.fetch returns; an error is returned, a package
\* starts the update goroutine.
PrepareFetched(r, insp, rend) ==
  /\ ~crashed
  /\ before' = Snapshot
  /\ cycle' = NoCycle
  /\ req[r].pc = "fetch"
  /\ Len(updaters[req[r].name]) < MaxUpdaters
  /\ LET res == fetch(insp, rend, now)
         name == req[r].name IN
     IF res.err # "nil"
     THEN /\ Return(r, "miss", NoPkg, res.err, insp)
          /\ UNCHANGED updaters
     ELSE /\ req' = [req EXCEPT ![r].pc = "insert", ![r].p = res.p]
          /\ updaters' = Spawn(updaters, name, updateDuration)
          /\ resp' = NoResp
          /\ UNCHANGED mu
  /\ UNCHANGED <<packages, updateDuration, errorHandler, now, crashed>>

\* prepare, lines 102-104: the package is cached and returned.
PrepareInsert(r) ==
  /\ ~crashed
  /\ before' = Snapshot
  /\ cycle' = NoCycle
  /\ req[r].pc = "insert"
  /\ packages' = Store(packages, req[r].name, req[r].p)
  /\ Return(r, "miss", req[r].p, "nil", NoCause)
  /\ UNCHANGED <<updateDuration, errorHandler, now, updaters, crashed>>

\* ---------------------------------------------------------------- updaters
\* The update goroutines: a name and its position among that name's.
Upds == { <<n, i>> \in Names \X (1..MaxUpdaters) : i <= Len(updaters[n]) }

Upd(u) == updaters[u[1]][u[2]]

\* A comparison that always finds a difference.
ChangedAlways(cur, p) == TRUE

\* update, line 131: the fetched bytes differ from the cached ones.
Changed(cur, p) == cur.buf # p.buf

\* A check that lets a failed fetch through.
FailedNever(res) == FALSE

\* update, line 127: the fetch failed and the cycle is skipped.
Failed(res) == res.err # "nil"

\* A goroutine that locks the mutex before its fetch.
UpdateWakeLocked(u) ==
  /\ ~crashed
  /\ before' = Snapshot
  /\ cycle' = NoCycle
  /\ Upd(u).pc = "sleep"
  /\ Upd(u).timer = 0
  /\ Free(mu)
  /\ mu' = <<"upd", u>>
  /\ updaters' = [updaters EXCEPT ![u[1]][u[2]] =
                    [pc |-> "fetch", p |-> NoPkg, timer |-> 0]]
  /\ resp' = NoResp
  /\ UNCHANGED <<packages, updateDuration, errorHandler, now, req, crashed>>

\* update, line 125: the timer of time.After fires.
UpdateWake(u) ==
  /\ ~crashed
  /\ before' = Snapshot
  /\ cycle' = NoCycle
  /\ Upd(u).pc = "sleep"
  /\ Upd(u).timer = 0
  /\ updaters' = [updaters EXCEPT ![u[1]][u[2]] =
                    [pc |-> "fetch", p |-> NoPkg, timer |-> 0]]
  /\ resp' = NoResp
  /\ UNCHANGED <<mu, packages, updateDuration, errorHandler, now, req,
                 crashed>>

\* update, lines 126-129: h.fetch returns; an error skips the cycle.
UpdateFetched(u, insp, rend) ==
  /\ ~crashed
  /\ before' = Snapshot
  /\ Upd(u).pc = "fetch"
  /\ LET res == fetch(insp, rend, now) IN
     IF Failed(res)
     THEN /\ updaters' = [updaters EXCEPT ![u[1]][u[2]] =
                            Sleeping(updateDuration)]
          /\ cycle' = [kind |-> "failed", name |-> u[1], p |-> NoPkg]
     ELSE /\ updaters' = [updaters EXCEPT ![u[1]][u[2]] =
                            [pc |-> "lock", p |-> res.p, timer |-> 0]]
          /\ cycle' = NoCycle
  /\ resp' = NoResp
  /\ UNCHANGED <<mu, packages, updateDuration, errorHandler, now, req,
                 crashed>>

\* update, lines 130-134: h.mu.Lock(), compare, replace, h.mu.Unlock(), and
\* sleep again.  Reading the buf of a missing entry or of a nil package is a
\* nil dereference, which ends the process with the mutex held.
UpdateCompare(u) ==
  /\ ~crashed
  /\ before' = Snapshot
  /\ Upd(u).pc = "lock"
  /\ Free(mu)
  /\ LET name == u[1]
         p == Upd(u).p IN
     IF ~Cached(packages, name) \/ p = NoPkg
     THEN /\ crashed' = TRUE
          /\ cycle' = NoCycle
          /\ mu' = <<"upd", u>>
          /\ UNCHANGED <<packages, updaters>>
     ELSE /\ packages' = IF Changed(packages[name], p)
                         THEN Store(packages, name, p) ELSE packages
          /\ mu' = NoHolder
          /\ updaters' = [updaters EXCEPT ![u[1]][u[2]] =
                            Sleeping(updateDuration)]
          /\ cycle' = [kind |-> "compared", name |-> name, p |-> p]
          /\ UNCHANGED crashed
  /\ resp' = NoResp
  /\ UNCHANGED <<updateDuration, errorHandler, now, req>>

\* ------------------------------------------------------------------- clock
\* Time passes, for the clock and for the timers of the sleeping goroutines.
Tick ==
  /\ ~crashed
  /\ before' = Snapshot
  /\ cycle' = NoCycle
  /\ now < MaxTime
  /\ now' = now + 1
  /\ updaters' = [n \in Names |->
                    [i \in 1..Len(updaters[n]) |->
                       [updaters[n][i] EXCEPT !.timer =
                          IF @ > 0 THEN @ - 1 ELSE 0]]]
  /\ resp' = NoResp
  /\ UNCHANGED <<mu, packages, updateDuration, errorHandler, req, crashed>>

\* ----------------------------------------------------------- specification
\* New: the handler as constructed, with the options applied.
Init ==
  /\ mu = NoHolder
  /\ packages = <<>>
  /\ updateDuration \in Durations
  /\ errorHandler \in ErrorHandlers
  /\ now = 0
  /\ req = [r \in Reqs |-> IdleReq]
  /\ resp = NoResp
  /\ updaters = [n \in Names |-> <<>>]
  /\ crashed = FALSE
  /\ cycle = NoCycle
  /\ before = Snapshot

Next ==
  \/ \E r \in Reqs, path \in Paths, q \in Queries : ServeHTTP(r, path, q)
  \/ \E r \in Reqs : PrepareLookup(r)
  \/ \E r \in Reqs, insp \in InspectOutcomes, rend \in RenderOutcomes :
        PrepareFetched(r, insp, rend)
  \/ \E r \in Reqs : PrepareInsert(r)
  \/ \E u \in Upds : UpdateWake(u)
  \/ \E u \in Upds, insp \in InspectOutcomes, rend \in RenderOutcomes :
        UpdateFetched(u, insp, rend)
  \/ \E u \in Upds : UpdateCompare(u)
  \/ Tick

Spec == Init /\ [][Next]_vars

\* The handler with a refresh interval of zero and the default error handler.
InitFair ==
  /\ Init
  /\ updateDuration = 0
  /\ errorHandler = "default"

\* The request paths that go on to prepare.
Served == { p \in Paths : ~NeedsRedirect(Url(p)) }

\* The steps of a request goroutine inside prepare.
PrepareStep(r) ==
  \/ PrepareLookup(r)
  \/ \E insp \in InspectOutcomes, rend \in RenderOutcomes :
        PrepareFetched(r, insp, rend)
  \/ PrepareInsert(r)

\* The steps of the update goroutine of a name.
UpdateStep(n) ==
  \E u \in Upds :
    /\ u[1] = n
    /\ \/ UpdateWake(u)
       \/ \E insp \in InspectOutcomes, rend \in RenderOutcomes :
             UpdateFetched(u, insp, rend)
       \/ UpdateCompare(u)

\* The steps of the handler when every request goes on to prepare.
NextFair ==
  \/ \E r \in Reqs, path \in Served : ServeHTTP(r, path, <<>>)
  \/ \E r \in Reqs : PrepareLookup(r)
  \/ \E r \in Reqs, insp \in InspectOutcomes, rend \in RenderOutcomes :
        PrepareFetched(r, insp, rend)
  \/ \E r \in Reqs : PrepareInsert(r)
  \/ \E u \in Upds : UpdateWake(u)
  \/ \E u \in Upds, insp \in InspectOutcomes, rend \in RenderOutcomes :
        UpdateFetched(u, insp, rend)
  \/ \E u \in Upds : UpdateCompare(u)
  \/ Tick

\* The scheduler runs every goroutine that can run, pkgdoc.New and h.render
\* return, a timer that can fire does, and sync.Mutex hands the mutex over to
\* a goroutine that keeps coming back to wait for it: a goroutine that can
\* take a step again and again does take one.
Fairness ==
  /\ \A r \in Reqs : SF_vars(PrepareStep(r))
  /\ \A n \in Names : SF_vars(UpdateStep(n))

FairSpec == InitFair /\ [][NextFair]_vars /\ Fairness

\* ------------------------------------------------------------------ claims
\* The requests inside prepare's miss path: h.fetch called, not yet returned
\* from prepare.
Missing == { r \in Reqs : req[r].pc \in {"fetch", "insert"} }

\* C1 (as stated): a resolve that misses makes exactly one fetch call, and a
\* resolve issued while another resolve of the same name is still inside its
\* fetch never makes a fetch call of its own.
C1_SecondNeverFetches ==
  /\ resp.via = "miss" => resp.fetches = 1
  /\ \A r \in Missing : ~req[r].second

\* C1 (amended): a resolve that misses makes exactly one fetch call and a
\* resolve that hits none; a fetch call of prepare runs with the mutex held
\* and only for a name that is not cached, so a resolve issued while another
\* one of the same name is inside its fetch makes a fetch call of its own
\* only when no resolve has cached the name, that is when the first failed.
C1_OneFetchPerMiss ==
  /\ resp.via = "miss" => resp.fetches = 1
  /\ resp.via = "hit" => resp.fetches = 0
  /\ \A r \in Missing :
       /\ mu = <<"req", r>>
       /\ ~Cached(packages, req[r].name)
       /\ req[r].fetches = 1

\* A resolve issued while another one of the same name was inside its fetch
\* has returned the cached package without a fetch call.
C1_Witness == resp.via = "hit" /\ resp.second /\ resp.fetches = 0

\* C2: a cached name has exactly one update goroutine, a name has never more
\* than one, a name that is not cached has one only while the resolve whose
\* fetch succeeded is about to cache it, and a resolve that hits starts none.
C2_OneUpdaterPerName ==
  /\ \A n \in Names :
       /\ Len(updaters[n]) <= 1
       /\ Cached(packages, n) => Len(updaters[n]) = 1
       /\ (Len(updaters[n]) = 1 /\ ~Cached(packages, n)) =>
            \E r \in Reqs : req[r].pc = "insert" /\ req[r].name = n
  /\ resp.via = "hit" =>
       [n \in Names |-> Len(updaters[n])] = before.updaters

\* A later resolve of a cached name has returned and the name still has its
\* one update goroutine.
C2_Witness ==
  /\ resp.via = "hit"
  /\ Len(updaters[resp.name]) = 1
  /\ before.updaters[resp.name] = 1

\* The update cycle just ended compared a fetched package with the cached one.
Compared == cycle.kind = "compared" /\ cycle.name \in DOMAIN before.packages

\* C3: an update cycle whose fetched bytes equal the cached bytes leaves the
\* cache, and so the cached modTime, as it was.
C3_SameBytesKeepEntry ==
  (Compared /\ cycle.p.buf = before.packages[cycle.name].buf) =>
    packages = before.packages

\* A cycle fetched the cached bytes at a later time and the entry kept its
\* earlier modTime.
C3_Witness ==
  /\ Compared
  /\ cycle.p.buf = before.packages[cycle.name].buf
  /\ cycle.p.modTime > before.packages[cycle.name].modTime
  /\ packages[cycle.name].modTime = before.packages[cycle.name].modTime

\* C4: an update cycle whose fetched bytes differ from the cached bytes
\* replaces the entry by the fetched package, bytes and modTime, and leaves
\* the other entries alone; a resolve that hits returns the entry as cached.
C4_ChangedBytesReplaceEntry ==
  /\ (Compared /\ cycle.p.buf # before.packages[cycle.name].buf) =>
       /\ packages[cycle.name] = cycle.p
       /\ DOMAIN packages = DOMAIN before.packages
       /\ \A n \in DOMAIN packages \ {cycle.name} :
            packages[n] = before.packages[n]
  /\ \A n \in Names : \A i \in 1..Len(updaters[n]) :
       updaters[n][i].pc = "lock" => updaters[n][i].p.modTime \in 0..now
  /\ resp.via = "hit" => resp.p = packages[resp.name]

\* A cycle replaced the entry by other bytes with a later modTime.
C4_Witness ==
  /\ Compared
  /\ cycle.p.buf # before.packages[cycle.name].buf
  /\ packages[cycle.name].buf = cycle.p.buf
  /\ packages[cycle.name].modTime > before.packages[cycle.name].modTime

\* A resolve has just returned the error of its fetch.
MissFailed == resp.via = "miss" /\ resp.err # "nil"

\* C5: a resolve whose fetch fails returns that error, caches nothing, starts
\* no update goroutine, unlocks and leaves the cache as it was; the name is
\* still not cached, so the next resolve of it fetches again.
C5_FailedMissCachesNothing ==
  MissFailed =>
    /\ resp.cbErr = resp.err
    /\ resp.p = NoPkg
    /\ ~Cached(packages, resp.name)
    /\ packages = before.packages
    /\ [n \in Names |-> Len(updaters[n])] = before.updaters
    /\ Len(updaters[resp.name]) = 0
    /\ mu = NoHolder

\* A resolve has failed while another name is cached, and a resolve of the
\* same name is waiting and will fetch again.
C5_Witness ==
  /\ MissFailed
  /\ packages # <<>>
  /\ \E r \in Reqs : req[r].pc = "prepare" /\ req[r].name = resp.name

\* C6: an update cycle whose fetch fails leaves the cache as it was and
\* writes no response, so a cached name keeps its package; the goroutine
\* sleeps again, and no goroutine goes on to the compare step with the
\* result of a failed fetch.
C6_FailedCycleKeepsEntry ==
  /\ cycle.kind = "failed" =>
       /\ packages = before.packages
       /\ resp = NoResp
       /\ \A i \in 1..Len(updaters[cycle.name]) :
            updaters[cycle.name][i].pc = "sleep"
  /\ \A n \in Names : \A i \in 1..Len(updaters[n]) :
       updaters[n][i].pc = "lock" => updaters[n][i].p # NoPkg
  /\ ~crashed

\* A cycle has failed at a later time than the cached package was made.
C6_Witness ==
  /\ cycle.kind = "failed"
  /\ Cached(packages, cycle.name)
  /\ packages[cycle.name].modTime < now

\* C7 (as stated): a failing resolve returns ErrImport or the renderer's
\* error, never a third kind.
C7_TwoErrorKinds == resp.err \in {"nil", "ErrImport", "RenderErr"}

\* C7 (amended): a failing resolve returns ErrImport exactly when the record
\* of pkgdoc.New has no name; otherwise it returns the error of pkgdoc.New as
\* it is when there is one, and else the renderer's error.
C7_ThreeErrorKinds ==
  MissFailed =>
    /\ resp.err \in {"ErrImport", "InspectErr", "RenderErr"}
    /\ resp.err = "ErrImport" <=> ~resp.cause.named
    /\ resp.err = "InspectErr" <=>
         (resp.cause.named /\ resp.cause.err = "InspectErr")
    /\ resp.err = "RenderErr" <=>
         (resp.cause.named /\ resp.cause.err = "nil")

\* A resolve has returned the error of pkgdoc.New unwrapped.
C7_Witness == MissFailed /\ resp.err = "InspectErr"

\* C8: no step removes a name from the cache.
C8_CacheOnlyGrows == DOMAIN before.packages \subseteq DOMAIN packages

\* Both names are cached and steps of every kind have gone by: a failed
\* cycle has just ended.
C8_Witness ==
  /\ DOMAIN packages = Names
  /\ Cardinality(Names) > 1
  /\ cycle.kind = "failed"

\* C9: a resolve of a cached name returns the package cached when it holds
\* the mutex, makes no fetch call, starts no update goroutine and leaves the
\* cache as it was.
C9_HitReturnsCached ==
  resp.via = "hit" =>
    /\ Cached(before.packages, resp.name)
    /\ resp.p = before.packages[resp.name]
    /\ resp.err = "nil"
    /\ resp.served
    /\ resp.fetches = 0
    /\ packages = before.packages
    /\ [n \in Names |-> Len(updaters[n])] = before.updaters
    /\ mu = NoHolder

\* A resolve has returned a package cached at an earlier time while another
\* name is cached too.
C9_Witness ==
  /\ resp.via = "hit"
  /\ resp.p.modTime < now
  /\ DOMAIN packages = Names

\* C10: when resolve fails the error handler is called with the error and
\* no content is served; the default handler answers 404 exactly for
\* ErrImport and 500 for every other error; when resolve succeeds the error
\* handler is not called.
C10_ErrorHandlerCalled ==
  /\ resp.err # "nil" =>
       /\ resp.cbErr = resp.err
       /\ ~resp.served
       /\ resp.p = NoPkg
       /\ errorHandler = "default" =>
            /\ resp.code = StatusNotFound <=> resp.err = "ErrImport"
            /\ resp.code = StatusInternalServerError <=> resp.err # "ErrImport"
  /\ resp.via \in {"hit", "miss"} /\ resp.err = "nil" =>
       /\ resp.cbErr = "nil"
       /\ resp.served
       /\ resp.code = StatusOK

\* The default handler has answered 500 to a renderer's error.
C10_Witness ==
  /\ MissFailed
  /\ errorHandler = "default"
  /\ resp.err = "RenderErr"
  /\ resp.code = StatusInternalServerError

\* The directory of a path, up to its last slash: what a client resolves a
\* relative Location against.
Dir(url) ==
  LET i == CHOOSE j \in 1..Len(url) :
             url[j] = "/" /\ \A k \in (j + 1)..Len(url) : url[k] # "/"
  IN SubSeq(url, 1, i)

\* A path with a slash appended, and the query when there is one.
WithSlash(url, q) ==
  url \o <<"/">> \o (IF q # <<>> THEN <<"?">> \o q ELSE <<>>)

\* C11 (as stated): a request whose path has no trailing slash is answered
\* 301 with a Location that is the same path with a slash appended and the
\* query preserved.
C11_LocationIsSamePath ==
  resp.via = "redirect" =>
    /\ resp.code = StatusMovedPermanently
    /\ resp.location = WithSlash(resp.url, resp.query)

\* C11 (amended): the request is answered 301 with a relative Location, the
\* last element of the path with a slash appended and the query preserved,
\* which resolved against the request path is the same path with the slash;
\* the step calls no prepare: no request state, no mutex, no cache entry and
\* no update goroutine changes.
C11_RedirectIsRelative ==
  [][resp'.via = "redirect" =>
       /\ resp'.code = StatusMovedPermanently
       /\ ~HasPrefixSlash(resp'.location)
       /\ Dir(resp'.url) \o resp'.location = WithSlash(resp'.url, resp'.query)
       /\ resp'.fetches = 0
       /\ req' = req
       /\ mu' = mu
       /\ packages' = packages
       /\ updaters' = updaters]_vars

\* A path of two elements with a query has been redirected while a package is
\* cached and a request is inside prepare.
C11_Witness ==
  /\ resp.via = "redirect"
  /\ resp.url = <<"/", "b", "/", "a">>
  /\ resp.location = <<"a", "/", "?", "q">>
  /\ packages # <<>>
  /\ \E r \in Reqs : req[r].pc = "prepare"

\* The requests inside the h.fetch call of prepare for name.
MissFetches(name) ==
  { r \in Reqs : req[r].pc = "fetch" /\ req[r].name = name }

\* The update goroutines of name inside their h.fetch call.
UpdateFetches(name) ==
  { i \in 1..Len(updaters[name]) : updaters[name][i].pc = "fetch" }

\* C12: at every moment at most one h.fetch call is in flight for a name,
\* prepare's and update's counted together, and at most one h.fetch call of
\* prepare is in flight for all names together.
C12_OneFetchInFlight ==
  /\ \A n \in Names :
       Cardinality(MissFetches(n)) + Cardinality(UpdateFetches(n)) <= 1
  /\ Cardinality({ r \in Reqs : req[r].pc = "fetch" }) <= 1

\* A request is inside prepare's h.fetch for one name, another request waits
\* to resolve a name that is not cached either, and the update goroutine of
\* a cached name is inside its h.fetch.
C12_Witness ==
  \E r \in Reqs, o \in Reqs, n \in Names :
    /\ req[r].pc = "fetch"
    /\ o # r
    /\ req[o].pc = "prepare"
    /\ ~Cached(packages, req[o].name)
    /\ n # req[r].name
    /\ UpdateFetches(n) # {}

\* The requests inside prepare's h.fetch call.
InFetch == { r \in Reqs : req[r].pc = "fetch" }

\* C13: while a request is inside prepare's h.fetch call, from the call to
\* its return, it holds the mutex, no step returns from prepare for another
\* request, hit or miss, whatever its name, and no update goroutine makes its
\* compare-and-replace step: the cache stays as it is.
C13_MissFetchBlocksAll ==
  [][\A r \in InFetch :
       /\ mu = <<"req", r>>
       /\ \A o \in Reqs \ {r} :
            /\ req[o].pc = "prepare" => req'[o].pc = "prepare"
            /\ req'[o].pc # "idle" \/ req[o].pc = "idle"
       /\ resp'.via \in {"hit", "miss"} => req'[r].pc = "idle"
       /\ cycle'.kind # "compared"
       /\ \A n \in Names : \A i \in 1..Len(updaters[n]) :
            updaters[n][i].pc = "lock" => updaters'[n][i] = updaters[n][i]
       /\ packages' = packages
       /\ ~crashed']_vars

\* A request is inside prepare's h.fetch while another request waits to
\* resolve a cached name and the update goroutine of that name waits to
\* compare.
C13_Witness ==
  \E r \in InFetch, o \in Reqs, n \in Names, i \in 1..MaxUpdaters :
    /\ req[o].pc = "prepare"
    /\ req[o].name = n
    /\ Cached(packages, n)
    /\ n # req[r].name
    /\ i <= Len(updaters[n])
    /\ updaters[n][i].pc = "lock"

\* The update goroutines of name that are inside h.fetch or asleep.
Unlocked(name) ==
  { i \in 1..Len(updaters[name]) : updaters[name][i].pc \in {"sleep", "fetch"} }

\* C14: an update goroutine holds the mutex inside its compare-and-replace
\* step only: in no state between steps does one hold it.  So whatever the
\* update goroutines are doing, a request waiting in prepare can lock and
\* look up when no request is inside prepare's miss path, and the h.fetch
\* call of a request can return.
C14_UpdateLocksOnlyToCompare ==
  /\ mu[1] # "upd"
  /\ (\E n \in Names : Unlocked(n) # {}) /\ Missing = {} => Free(mu)
  /\ \A r \in Reqs :
       /\ req[r].pc = "prepare" /\ Missing = {} => ENABLED PrepareLookup(r)
       /\ req[r].pc = "fetch" =>
            ENABLED (\E insp \in InspectOutcomes, rend \in RenderOutcomes :
                       PrepareFetched(r, insp, rend))

\* A resolve of a cached name has returned while the update goroutine of that
\* name is inside its h.fetch, after an earlier cycle.
C14_Witness ==
  /\ resp.via = "hit"
  /\ UpdateFetches(resp.name) # {}
  /\ now > resp.p.modTime

\* The update goroutines that have fetched a package and are at h.mu.Lock().
AtLock == { u \in Upds : Upd(u).pc = "lock" }

\* C18: whenever an update goroutine can make its compare step, having
\* fetched a package and with the mutex free, the cache holds an entry for
\* its name and the package it fetched is not nil; every compare step made
\* found the entry, and no nil dereference has ended the process.
C18_CompareFindsEntry ==
  /\ \A u \in AtLock :
       /\ Upd(u).p # NoPkg
       /\ Free(mu) => Cached(packages, u[1])
  /\ cycle.kind = "compared" => Cached(before.packages, cycle.name)
  /\ ~crashed

\* With a refresh interval of zero the update goroutine started by prepare
\* has fetched and is at h.mu.Lock() before prepare has cached the name.
C18_Witness ==
  \E u \in AtLock, r \in Reqs :
    /\ updateDuration = 0
    /\ req[r].pc = "insert"
    /\ req[r].name = u[1]
    /\ ~Cached(packages, u[1])
    /\ mu = <<"req", r>>

\* C20: no step lowers the modTime of a cached name, a replacement by an
\* update goroutine installs a modTime not earlier than the one it replaces,
\* no cached modTime is later than the clock, and a resolve returns the
\* modTime cached at its return, so the modTimes that successive resolves of
\* a name return do not decrease.
C20_ModTimeNeverDecreases ==
  /\ \A n \in DOMAIN before.packages :
       packages[n].modTime >= before.packages[n].modTime
  /\ Compared => cycle.p.modTime >= before.packages[cycle.name].modTime
  /\ \A n \in DOMAIN packages : packages[n].modTime \in 0..now
  /\ (resp.via \in {"hit", "miss"} /\ resp.err = "nil") =>
       resp.p.modTime = packages[resp.name].modTime

\* An update goroutine has replaced an entry by one with a later modTime while
\* a request waits to resolve that name.
C20_Witness ==
  /\ Compared
  /\ packages[cycle.name].modTime > before.packages[cycle.name].modTime
  /\ \E r \in Reqs : req[r].pc = "prepare" /\ req[r].name = cycle.name

\* What one successful h.fetch call makes at the time now: the bytes of one
\* rendering with the reading of the clock.
Fetched == [buf : Payloads, modTime : {now}]

\* C16: a package is made whole by one successful h.fetch call, for the name
\* of the request or of the update goroutine that called it, and is carried
\* unchanged until it is stored; an entry of the cache is only ever set to
\* the package carried by a request or an update goroutine of that same name,
\* and a resolve returns the entry of its name as it is cached.
C16_EntriesAreFetchedWhole ==
  [][/\ \A r \in Reqs :
          /\ (req[r].pc = "fetch" /\ req'[r].pc = "insert") =>
               /\ req'[r].p \in Fetched
               /\ req'[r].name = req[r].name
          /\ (req[r].pc = "insert" /\ req'[r].pc = "insert") =>
               req'[r] = req[r]
     /\ \A u \in Upds :
          /\ (Upd(u).pc = "fetch" /\ updaters'[u[1]][u[2]].pc = "lock") =>
               updaters'[u[1]][u[2]].p \in Fetched
          /\ (Upd(u).pc = "lock" /\ updaters'[u[1]][u[2]].pc = "lock") =>
               updaters'[u[1]][u[2]] = Upd(u)
     /\ \A n \in DOMAIN packages' :
          (n \notin DOMAIN packages \/ packages'[n] # packages[n]) =>
            \/ \E r \in Reqs :
                 /\ req[r].pc = "insert"
                 /\ req[r].name = n
                 /\ packages'[n] = req[r].p
            \/ \E u \in AtLock : u[1] = n /\ packages'[n] = Upd(u).p
     /\ (resp'.via \in {"hit", "miss"} /\ resp'.err = "nil") =>
          resp'.p = packages'[resp'.name]]_vars

\* Both names are cached with different bytes made at different times, and
\* the update goroutine of one of them has just replaced its entry.
C16_Witness ==
  /\ Compared
  /\ packages[cycle.name] = cycle.p
  /\ packages[cycle.name] # before.packages[cycle.name]
  /\ \E n \in DOMAIN packages :
       /\ packages[n].buf # cycle.p.buf
       /\ packages[n].modTime # cycle.p.modTime

\* The cache keys of the served paths that clean to path c.
Keys(c) == { PkgName(Url(p)) : p \in { q \in Served : Clean(Url(q)) = c } }

\* C17 (as stated): the request paths that clean to one path share one cache
\* entry, one update goroutine and one miss-path fetch: of their keys at most
\* one is cached, together they have at most one update goroutine, and a
\* request of one of them is inside prepare's miss path only when none of
\* them is cached.
C17_SameCleanSameName ==
  \A c \in { Clean(Url(p)) : p \in Served } :
    /\ Cardinality(Keys(c) \cap DOMAIN packages) <= 1
    /\ \A n1 \in Keys(c), n2 \in Keys(c) :
         (Len(updaters[n1]) > 0 /\ Len(updaters[n2]) > 0) => n1 = n2
    /\ \A r \in Missing :
         req[r].name \in Keys(c) => Keys(c) \cap DOMAIN packages = {}

\* The paths "/" and "//" clean to the same path and each has a cache entry
\* and an update goroutine of its own.
C17_Witness ==
  /\ Clean(<<"/", "/">>) = Clean(<<"/">>)
  /\ PkgName(<<"/">>) # PkgName(<<"/", "/">>)
  /\ Cached(packages, PkgName(<<"/">>))
  /\ Cached(packages, PkgName(<<"/", "/">>))
  /\ Len(updaters[PkgName(<<"/">>)]) = 1
  /\ Len(updaters[PkgName(<<"/", "/">>)]) = 1

\* The update goroutine of name has just ended a cycle.
CycleEnds(name) == cycle.kind # "none" /\ cycle.name = name

\* C15: an update goroutine never returns: it is asleep, fetching or at the
\* mutex, and after every cycle, failed or compared, it is at time.After
\* again exactly as when it was started; a compared cycle with other bytes
\* stores its package whatever happened in the cycles before; and a name that
\* has an update goroutine sees a cycle end again and again.
C15_UpdateNeverStops ==
  /\ [](\A n \in Names : \A i \in 1..Len(updaters[n]) :
          /\ updaters[n][i].pc \in {"sleep", "fetch", "lock"}
          /\ CycleEnds(n) => updaters[n][i] = Sleeping(updateDuration))
  /\ []((Compared /\ cycle.p.buf # before.packages[cycle.name].buf) =>
          packages[cycle.name] = cycle.p)
  /\ \A n \in Names : [](Len(updaters[n]) > 0 => []<>CycleEnds(n))

\* A cycle of an update goroutine has failed, the goroutine is at time.After
\* again and the entry is the one cached at an earlier time.
C15_Witness ==
  /\ cycle.kind = "failed"
  /\ Cached(packages, cycle.name)
  /\ updaters[cycle.name] = <<Sleeping(updateDuration)>>
  /\ packages[cycle.name].modTime < now
  /\ packages = before.packages

\* C19: the mutex is held only by a request inside prepare's miss path, whose
\* steps do not wait for anything, so the mutex is free again after every
\* return; and every request that has entered prepare returns.
C19_EveryResolveReturns ==
  /\ [](mu = NoHolder \/ \E r \in Missing : mu = <<"req", r>>)
  /\ [](resp.via \in {"hit", "miss"} => mu = NoHolder)
  /\ \A r \in Reqs : (req[r].pc # "idle") ~> (req[r].pc = "idle")

\* A failed resolve has returned and left the mutex free while another
\* request waits in prepare and an update goroutine waits at the mutex.
C19_Witness ==
  /\ MissFailed
  /\ mu = NoHolder
  /\ \E r \in Reqs : req[r].pc = "prepare"
  /\ AtLock # {}

====
